---- MODULE Spec2Model ----
(***************************************************************************)
(* A model of the forward proxy of src/proxy/proxy_server.py: the          *)
(* blocklist cache (fetch_blocked_sites, is_blocked), the log pipeline     *)
(* (enqueue_log, log_worker), the connection handler (handle_client), the  *)
(* relay (forward) and the listener (start_proxy).                         *)
(*                                                                         *)
(* Byte strings and text are sequences of one-character strings, so that   *)
(* Python's split, find, replace and `in` are computed, not assumed.       *)
(***************************************************************************)
EXTENDS Naturals, Sequences, FiniteSets, TLC

(***************************************************************************)
(* Bounds of the model                                                     *)
(***************************************************************************)
\* connections the listener accepts
MaxConns == 1
\* connections the listener accepts where the log pipeline is explored
MaxLogConns == 2
\* connections the listener accepts where the worker pool is explored
MaxPoolConns == 2
\* pool workers that tasks of connections beyond the modelled ones may free
MaxFree == 1
\* calls of fetch_blocked_sites, the one of start_proxy included
MaxFetch == 2
\* POSTs to /logs that do not end in a 200
MaxFail == 2
\* length of the hosts tried against is_blocked
MaxHostLen == 4
\* length of a blocklist entry tried against is_blocked
MaxSiteLen == 2
\* entries of a blocklist tried against is_blocked
MaxSites == 2
MaxPayload == 2

(***************************************************************************)
(* Program constants                                                       *)
(***************************************************************************)
MAX_THREADS == 50
DEFAULT_CONNECT_PORT == 443
DEFAULT_HTTP_PORT == 80

(***************************************************************************)
(* Python's str / bytes operations                                         *)
(***************************************************************************)
\* s[i:i+len(t)] == t  (i is 1-based)
MatchAt(s, t, i) ==
    /\ i >= 1
    /\ i + Len(t) <= Len(s) + 1
    /\ SubSeq(s, i, i + Len(t) - 1) = t

\* s.find(t, from): the first offset >= from at which t occurs in s, 0 if none
Find(s, t, from) ==
    LET hits == {i \in from..(Len(s) + 1) : MatchAt(s, t, i)}
    IN  IF hits = {} THEN 0 ELSE CHOOSE i \in hits : \A j \in hits : i <= j

\* t in s
Contains(s, t) == Find(s, t, 1) # 0

\* s.split(sep, 1), for a non-empty sep
SplitOnce(s, sep) ==
    LET i == Find(s, sep, 1)
    IN  IF i = 0 THEN <<s>>
        ELSE <<SubSeq(s, 1, i - 1), SubSeq(s, i + Len(sep), Len(s))>>

\* s.split(sep), for a non-empty sep
RECURSIVE SplitAll(_, _)
SplitAll(s, sep) ==
    LET i == Find(s, sep, 1)
    IN  IF i = 0 THEN <<s>>
        ELSE <<SubSeq(s, 1, i - 1)>> \o SplitAll(SubSeq(s, i + Len(sep), Len(s)), sep)

Whitespace == {" ", "\t", "\r", "\n"}

\* s.split(): the maximal runs of non-whitespace characters
RECURSIVE SplitWs(_)
SplitWs(s) ==
    IF s = <<>> THEN <<>>
    ELSE IF Head(s) \in Whitespace THEN SplitWs(Tail(s))
    ELSE LET stops == {i \in 1..Len(s) : s[i] \in Whitespace}
             e == IF stops = {} THEN Len(s) + 1
                  ELSE CHOOSE i \in stops : \A j \in stops : i <= j
         IN  <<SubSeq(s, 1, e - 1)>> \o SplitWs(SubSeq(s, e, Len(s)))

\* s.replace(old, new): every non-overlapping occurrence, left to right
RECURSIVE Replace(_, _, _)
Replace(s, old, new) ==
    IF old = <<>>
    THEN IF s = <<>> THEN new
         ELSE new \o <<Head(s)>> \o Replace(Tail(s), old, new)
    ELSE LET i == Find(s, old, 1)
         IN  IF i = 0 THEN s
             ELSE SubSeq(s, 1, i - 1) \o new
                    \o Replace(SubSeq(s, i + Len(old), Len(s)), old, new)

\* a byte outside ASCII, which decode(errors='ignore') drops
NonAscii == "\\x80"

\* bytes.decode(errors='ignore')
Decode(bytes) == SelectSeq(bytes, LAMBDA ch : ch # NonAscii)

\* str.upper(), on the letters the model's methods are written with
UpperOf(ch) ==
    CASE ch = "c" -> "C" [] ch = "o" -> "O" [] ch = "n" -> "N"
      [] ch = "e" -> "E" [] ch = "t" -> "T" [] ch = "g" -> "G"
      [] OTHER -> ch

Upper(s) == [i \in 1..Len(s) |-> UpperOf(s[i])]

\* str.lower(), on the letters the model's hosts are written with
LowerOf(ch) ==
    CASE ch = "B" -> "b" [] ch = "E" -> "e" [] ch = "T" -> "t"
      [] ch = "O" -> "o" [] ch = "K" -> "k" [] ch = "X" -> "x"
      [] OTHER -> ch

Lower(s) == [i \in 1..Len(s) |-> LowerOf(s[i])]

Digits == {"0", "1", "2", "3", "4", "5", "6", "7", "8", "9"}

DigitVal(ch) ==
    CASE ch = "0" -> 0 [] ch = "1" -> 1 [] ch = "2" -> 2 [] ch = "3" -> 3
      [] ch = "4" -> 4 [] ch = "5" -> 5 [] ch = "6" -> 6 [] ch = "7" -> 7
      [] ch = "8" -> 8 [] OTHER -> 9

\* whether int(s) returns (a run of decimal digits) or raises ValueError
IsInt(s) == s # <<>> /\ \A i \in 1..Len(s) : s[i] \in Digits

RECURSIVE ToInt(_)
ToInt(s) ==
    IF s = <<>> THEN 0
    ELSE 10 * ToInt(SubSeq(s, 1, Len(s) - 1)) + DigitVal(s[Len(s)])

(***************************************************************************)
(* is_blocked: any(site in host for site in blocked_sites)                 *)
(***************************************************************************)
\* a variant: the entry matched as a suffix of the host only
SiteMatchesSuffix(site, host) ==
    Len(site) <= Len(host) /\ MatchAt(host, site, Len(host) - Len(site) + 1)

\* the test of one entry: `site in host`
\* a variant: the host is lowercased before the test
SiteMatchesIgnoringCase(site, host) == Contains(Lower(host), site)

\* `site in host` of is_blocked
SiteMatches(site, host) == Contains(host, site)

\* any(...) over the list `sites`, entry by entry, stopping at the first hit
RECURSIVE is_blocked(_, _)
is_blocked(host, sites) ==
    IF sites = <<>> THEN FALSE
    ELSE IF SiteMatches(Head(sites), host) THEN TRUE
    ELSE is_blocked(host, Tail(sites))

(***************************************************************************)
(* handle_client: the request line and the target                          *)
(***************************************************************************)
\* request.split(b'\n')[0].decode(errors='ignore').split()
RequestParts(request) == SplitWs(Decode(SplitOnce(request, <<"\n">>)[1]))

CONNECT == <<"C", "O", "N", "N", "E", "C", "T">>
SchemeSep == <<":", "/", "/">>

NoTarget == [ok |-> FALSE, kind |-> "none", host |-> <<>>, port |-> 0,
             url |-> <<>>, path |-> <<>>]

\* the CONNECT branch: host[:port], port 443 when absent; int() may raise
ParseConnect(url) ==
    LET host_port == SplitAll(url, <<":">>)
    IN  IF Len(host_port) > 1 /\ ~IsInt(host_port[2])
        THEN [NoTarget EXCEPT !.kind = "connect"]
        ELSE [ok |-> TRUE, kind |-> "connect", host |-> host_port[1],
              port |-> IF Len(host_port) > 1 THEN ToInt(host_port[2])
                       ELSE DEFAULT_CONNECT_PORT,
              url |-> url, path |-> <<>>]

\* the plain-HTTP branch: scheme stripped, host[:port] split from the path;
\* the two-name unpacking of split(":") and int() may raise
ParseHttp(target) ==
    LET url == IF Contains(target, SchemeSep)
               THEN SplitOnce(target, SchemeSep)[2] ELSE target
        host_port_path == SplitOnce(url, <<"/">>)
        host_port == host_port_path[1]
        path == IF Len(host_port_path) > 1
                THEN <<"/">> \o host_port_path[2] ELSE <<"/">>
        pieces == SplitAll(host_port, <<":">>)
    IN  IF Contains(host_port, <<":">>)
        THEN IF Len(pieces) # 2 \/ ~IsInt(pieces[2])
             THEN [NoTarget EXCEPT !.kind = "http"]
             ELSE [ok |-> TRUE, kind |-> "http", host |-> pieces[1],
                   port |-> ToInt(pieces[2]), url |-> url, path |-> path]
        ELSE [ok |-> TRUE, kind |-> "http", host |-> host_port,
              port |-> DEFAULT_HTTP_PORT, url |-> url, path |-> path]

\* method, url = parts[0], parts[1]; the branch on method.upper() == "CONNECT"
ParseTarget(parts) ==
    IF Upper(parts[1]) = CONNECT THEN ParseConnect(parts[2])
    ELSE ParseHttp(parts[2])

\* new_request = request.replace(url.encode(), path.encode())
RewriteRequest(request, url, path) == Replace(request, url, path)

(***************************************************************************)
(* The inputs the model drives the proxy with                              *)
(***************************************************************************)
GET == <<"G", "E", "T">>
HostBet == <<"b", "e", "t">>
HostOk == <<"o", "k">>
SiteBet == <<"b", "e", "t">>
SiteX == <<"x">>

\* what GET /blocked-sites may answer with a 200 and a JSON array
SiteLists == {<<>>, <<SiteBet, SiteX>>, <<SiteX, SiteBet>>}

\* the ways requests.get(...) / response.json() fail, and a non-200 answer
FetchFailures == {"transport_error", "timeout", "non200", "bad_body"}

FetchResponses ==
    [kind : {"ok"}, body : SiteLists] \cup [kind : FetchFailures, body : {<<>>}]

HttpVersion == <<" ", "H", "/", "1", "\r", "\n">>
HostHeader(h) == <<"H", ":", " ">> \o h \o <<"\r", "\n", "\r", "\n">>

ReqConnectBet == CONNECT \o <<" ">> \o HostBet \o <<":", "4", "4", "3">> \o HttpVersion
ReqConnectOk == CONNECT \o <<" ">> \o HostOk \o HttpVersion
ReqConnectBadPort == CONNECT \o <<" ">> \o HostOk \o <<":", "x">> \o HttpVersion
ReqGetBet ==
    GET \o <<" ", "h", ":", "/", "/">> \o HostBet \o <<"/">> \o HttpVersion
ReqGetOk ==
    GET \o <<" ", "h", ":", "/", "/">> \o HostOk \o <<"/", "a">> \o HttpVersion
        \o HostHeader(HostOk)
ReqGetMultiColon ==
    GET \o <<" ">> \o HostOk \o <<":", "1", ":", "2", "/">> \o HttpVersion
ReqOneToken == GET \o <<"\r", "\n">>

\* hosts written with capitals
HostBetUpper == <<"B", "E", "T">>
HostBetMixed == <<"B", "e", "t">>
ReqConnectBetUpper ==
    CONNECT \o <<" ">> \o HostBetUpper \o <<":", "4", "4", "3">> \o HttpVersion
ReqGetBetMixed ==
    GET \o <<" ", "h", ":", "/", "/">> \o HostBetMixed \o <<"/">> \o HttpVersion
ReqEmpty == <<>>

\* the first bytes a client may send
Requests ==
    {ReqConnectBet, ReqConnectOk, ReqConnectBadPort, ReqGetBet, ReqGetOk,
     ReqGetMultiColon, ReqOneToken, ReqEmpty}

Larger(a, b) == IF a > b THEN a ELSE b
Conns == 1..Larger(MaxConns, Larger(MaxLogConns, MaxPoolConns))
Dirs == {"c2r", "r2c"}

(***************************************************************************)
(* State                                                                   *)
(***************************************************************************)
VARIABLES
    main_pc,        \* where start_proxy is
    refresher,      \* the thread of refresh_blocked_sites_periodically
    blocked_sites,  \* the global: a reference to a list object
    lists,          \* the list objects: reference -> entries
    published,      \* history: the bodies the successful fetches assigned
    fetches,        \* history: calls of fetch_blocked_sites so far
    lastFetch,      \* history: how the last call ended
    log_queue,      \* the Queue of log entries
    worker,         \* the thread of log_worker: its position and its entry
    posted,         \* history: POSTs to /logs, per connection's outcome
    acked,          \* history: POSTs answered 200, per connection's outcome
    lastPost,       \* history: how the last POST of the outcome ended
    fails,          \* history: POSTs that did not end in a 200
    accepted,       \* connections accepted so far
    conn,           \* per connection: the handler, its sockets, its relays
    fn,             \* the function applications of PureSpec
    others          \* pool workers running tasks of connections beyond Conns

vars == <<main_pc, refresher, blocked_sites, lists, published, fetches,
          lastFetch, log_queue, worker, posted, acked, lastPost, fails,
          accepted, conn, fn, others>>

cacheVars == <<blocked_sites, lists, published, fetches, lastFetch>>
logVars == <<log_queue, worker, posted, acked, lastPost, fails>>
threadVars == <<main_pc, refresher>>

NoEntry == [conn |-> 0, domain |-> <<>>, status |-> "none"]

NewConn ==
    [pc |-> "idle", request |-> <<>>, target |-> NoTarget,
     it_ref |-> 0, it_idx |-> 0, seen |-> <<>>,
     decision |-> "none", emitted |-> 0, events |-> <<>>,
     client |-> "none", remote |-> "none", remoteIn |-> <<>>, parity |-> 0,
     fwd |-> [d \in Dirs |-> "none"],
     csent |-> <<>>, cbuf |-> <<>>, cfin |-> FALSE,
     rsent |-> <<>>, rbuf |-> <<>>, rfin |-> FALSE, clientIn |-> <<>>]

NoFn == [op |-> "none"]

\* the state after the module is loaded: blocked_sites = [], an empty Queue
InitProxy ==
    /\ main_pc = "fetch"
    /\ refresher = "none"
    /\ blocked_sites = 1
    /\ lists = <<(<<>>)>>
    /\ published = <<(<<>>)>>
    /\ fetches = 0
    /\ lastFetch = "none"
    /\ log_queue = <<>>
    /\ worker = [pc |-> "none", entry |-> NoEntry]
    /\ posted = [c \in Conns |-> 0]
    /\ acked = [c \in Conns |-> 0]
    /\ lastPost = [c \in Conns |-> "none"]
    /\ fails = 0
    /\ accepted = 0
    /\ conn = [c \in Conns |-> NewConn]

Init == InitProxy /\ fn = NoFn /\ others = 0

(***************************************************************************)
(* Blocklist cache                                                         *)
(***************************************************************************)
\* a variant: the body assigned whatever the status code is
fetch_blocked_sites_any_status(resp) ==
    /\ fetches < MaxFetch
    /\ fetches' = fetches + 1
    /\ lastFetch' = IF resp.kind = "ok" THEN "ok" ELSE "failed"
    /\ IF resp.kind \in {"ok", "non200"}
       THEN /\ lists' = Append(lists, resp.body)
            /\ blocked_sites' = Len(lists) + 1
            /\ published' = Append(published, resp.body)
       ELSE UNCHANGED <<lists, blocked_sites, published>>

\* a variant: the list object updated in place, blocked_sites[:] = ...
fetch_blocked_sites_in_place(resp) ==
    /\ fetches < MaxFetch
    /\ fetches' = fetches + 1
    /\ lastFetch' = IF resp.kind = "ok" THEN "ok" ELSE "failed"
    /\ IF resp.kind = "ok"
       THEN /\ lists' = [lists EXCEPT ![blocked_sites] = resp.body]
            /\ published' = Append(published, resp.body)
            /\ UNCHANGED blocked_sites
       ELSE UNCHANGED <<lists, blocked_sites, published>>

\* fetch_blocked_sites(): on a 200 with a decodable body the global is bound
\* to the new list object; a failure or a non-200 is caught and changes nothing
fetch_blocked_sites(resp) ==
    /\ fetches < MaxFetch
    /\ fetches' = fetches + 1
    /\ lastFetch' = IF resp.kind = "ok" THEN "ok" ELSE "failed"
    /\ IF resp.kind = "ok"
       THEN /\ lists' = Append(lists, resp.body)
            /\ blocked_sites' = Len(lists) + 1
            /\ published' = Append(published, resp.body)
       ELSE UNCHANGED <<lists, blocked_sites, published>>

\* whether the call raises: `except Exception` catches whatever requests.get
\* and response.json() raise
FetchRaises(resp) == FALSE

\* start_proxy: the first fetch, before any thread is started
StartFetch(resp) ==
    /\ main_pc = "fetch"
    /\ fetch_blocked_sites(resp)
    /\ main_pc' = IF FetchRaises(resp) THEN "crashed" ELSE "spawn_refresh"
    /\ UNCHANGED <<refresher, logVars, accepted, conn, fn, others>>

\* a variant: the accept loop entered before the log thread is started
SpawnRefreshThenAccept ==
    /\ main_pc = "spawn_refresh"
    /\ main_pc' = "accept"
    /\ refresher' = "running"
    /\ UNCHANGED <<cacheVars, logVars, accepted, conn, fn, others>>

\* start_proxy: threading.Thread(target=refresh_blocked_sites_periodically)
SpawnRefresh ==
    /\ main_pc = "spawn_refresh"
    /\ main_pc' = "spawn_log"
    /\ refresher' = "running"
    /\ UNCHANGED <<cacheVars, logVars, accepted, conn, fn, others>>

\* start_proxy: threading.Thread(target=log_worker), then bind and listen
SpawnLogWorker ==
    /\ main_pc = "spawn_log"
    /\ main_pc' = "accept"
    /\ worker' = [worker EXCEPT !.pc = "get"]
    /\ UNCHANGED <<refresher, cacheVars, log_queue, posted, acked, lastPost,
                   fails, accepted, conn, fn, others>>

\* a variant: a refresh closes the connections to hosts of the new list
RefreshFetchClosesBlocked(resp) ==
    /\ refresher = "running"
    /\ fetch_blocked_sites(resp)
    /\ refresher' = IF FetchRaises(resp) THEN "dead" ELSE "running"
    /\ conn' = [c \in Conns |->
                  IF /\ resp.kind = "ok"
                     /\ conn[c].pc \in {"tunnel", "relay"}
                     /\ is_blocked(conn[c].target.host, resp.body)
                  THEN [conn[c] EXCEPT !.pc = "closed", !.client = "closed",
                                       !.events = Append(@, "close")]
                  ELSE conn[c]]
    /\ UNCHANGED <<main_pc, logVars, accepted, fn, others>>

\* refresh_blocked_sites_periodically: one turn of the loop
RefreshFetch(resp) ==
    /\ refresher = "running"
    /\ fetch_blocked_sites(resp)
    /\ refresher' = IF FetchRaises(resp) THEN "dead" ELSE "running"
    /\ UNCHANGED <<main_pc, logVars, accepted, conn, fn, others>>

(***************************************************************************)
(* Log dispatcher                                                          *)
(***************************************************************************)
\* enqueue_log(domain, status): log_queue.put({...}) on an unbounded Queue;
\* the connection stands for the entry's timestamp
enqueue_log(queue, c, domain, status) ==
    Append(queue, [conn |-> c, domain |-> domain, status |-> status])

\* log_worker: log_queue.get(timeout=1) returned an entry
LogGet ==
    /\ worker.pc = "get"
    /\ log_queue # <<>>
    /\ worker' = [pc |-> "post", entry |-> Head(log_queue)]
    /\ log_queue' = Tail(log_queue)
    /\ UNCHANGED <<threadVars, cacheVars, posted, acked, lastPost, fails,
                   accepted, conn, fn, others>>

\* what session.post(...) may end in: a 200, another status, or a
\* requests.RequestException (no connection, timeout)
PostResults == {"200", "non200", "exception"}

\* log_worker: the POST and what follows it. A status other than 200 is only
\* printed; a RequestException puts the entry back and sleeps
log_post(res) ==
    /\ worker.pc = "post"
    /\ res # "200" => fails < MaxFail
    /\ posted' = [posted EXCEPT ![worker.entry.conn] = @ + 1]
    /\ lastPost' = [lastPost EXCEPT ![worker.entry.conn] = res]
    /\ acked' = IF res = "200" THEN [acked EXCEPT ![worker.entry.conn] = @ + 1]
                ELSE acked
    /\ fails' = IF res = "200" THEN fails ELSE fails + 1
    /\ log_queue' = IF res = "exception" THEN Append(log_queue, worker.entry)
                    ELSE log_queue
    /\ worker' = [pc |-> IF res = "exception" THEN "sleep" ELSE "get",
                  entry |-> NoEntry]

LogPost(res) ==
    /\ log_post(res)
    /\ UNCHANGED <<threadVars, cacheVars, accepted, conn, fn, others>>

\* log_worker: time.sleep(2) is over, task_done(), next turn of the loop
LogWake ==
    /\ worker.pc = "sleep"
    /\ worker' = [worker EXCEPT !.pc = "get"]
    /\ UNCHANGED <<threadVars, cacheVars, log_queue, posted, acked, lastPost,
                   fails, accepted, conn, fn, others>>

(***************************************************************************)
(* Listener and worker pool                                                *)
(***************************************************************************)
\* positions at which handle_client occupies a pool worker
HandlerRunning ==
    {"recv", "classified", "check", "reject", "connect", "established",
     "sendreq", "relay"}

\* tasks the ThreadPoolExecutor is running
Busy ==
    Cardinality({c \in Conns : conn[c].pc \in HandlerRunning})
      + Cardinality({x \in Conns \X Dirs : conn[x[1]].fwd[x[2]] = "running"})
      + others

Set(c, r) == conn' = [conn EXCEPT ![c] = r]

\* start_proxy: server_socket.accept(); executor.submit(handle_client, ...)
Accept(c) ==
    /\ main_pc = "accept"
    /\ c = accepted + 1
    /\ accepted' = c
    /\ Set(c, [conn[c] EXCEPT !.pc = "queued", !.client = "open"])
    /\ UNCHANGED <<threadVars, cacheVars, logVars, fn, others>>

\* a variant: a thread of its own for every handler, whatever the pool runs
StartHandlerUnpooled(c) ==
    /\ conn[c].pc = "queued"
    /\ Set(c, [conn[c] EXCEPT !.pc = "recv"])
    /\ UNCHANGED <<threadVars, cacheVars, logVars, accepted, fn, others>>

\* a pool worker picks the handler up: client_conn.settimeout(30)
StartHandler(c) ==
    /\ conn[c].pc = "queued"
    /\ Busy < MAX_THREADS
    /\ Set(c, [conn[c] EXCEPT !.pc = "recv"])
    /\ UNCHANGED <<threadVars, cacheVars, logVars, accepted, fn, others>>

(***************************************************************************)
(* handle_client                                                           *)
(***************************************************************************)
\* the events of a connection in their order, a run of relayed chunks noted
\* once (conn[c].parity tells the chunks of a run apart)
Note(events, e) ==
    IF e = "data" /\ events # <<>> /\ events[Len(events)] = "data" THEN events
    ELSE Append(events, e)

\* client_conn.close() in the handler, with the note of it in the events
Closed(r, why) ==
    [r EXCEPT !.pc = "closed", !.client = "closed",
              !.events = Append(@, why)]

\* a variant: a request without a target is answered 400 before the close
RecvReplies400(c, req) ==
    /\ conn[c].pc = "recv"
    /\ LET parts == RequestParts(req)
           r == [conn[c] EXCEPT !.request = req]
       IN  IF req = <<>> \/ Len(parts) < 2
           THEN Set(c, Closed([r EXCEPT !.events = Append(@, "400")],
                              "close_malformed"))
           ELSE LET t == ParseTarget(parts)
                IN  IF ~t.ok
                    THEN Set(c, Closed([r EXCEPT !.target = t], "close_error"))
                    ELSE Set(c, [r EXCEPT !.target = t, !.pc = "classified"])
    /\ UNCHANGED <<threadVars, cacheVars, logVars, accepted, fn, others>>

\* request = client_conn.recv(4096), the request line and the target.
\* No bytes or fewer than two tokens: close and return. A ValueError of the
\* target's parsing reaches `except Exception`: close.
Parsed(c, req) ==
    LET parts == RequestParts(req)
        r == [conn[c] EXCEPT !.request = req]
    IN  IF req = <<>> \/ Len(parts) < 2
        THEN Closed(r, "close_malformed")
        ELSE LET t == ParseTarget(parts)
             IN  IF ~t.ok
                 THEN Closed([r EXCEPT !.target = t], "close_error")
                 ELSE [r EXCEPT !.target = t, !.pc = "classified"]

\* the handler's recv returns req: what the client sent has arrived in one
\* piece
Recv(c, req) ==
    /\ conn[c].pc = "recv"
    /\ Set(c, Parsed(c, req))
    /\ UNCHANGED <<threadVars, cacheVars, logVars, accepted, fn, others>>

\* a variant: a recv that timed out is answered 408 before the close
RecvErrorReplies408(c) ==
    /\ conn[c].pc = "recv"
    /\ Set(c, Closed([conn[c] EXCEPT !.events = Append(@, "408")],
                     "close_error"))
    /\ UNCHANGED <<threadVars, cacheVars, logVars, accepted, fn, others>>

\* client_conn.recv(4096) raises socket.timeout or another error
RecvError(c) ==
    /\ conn[c].pc = "recv"
    /\ Set(c, Closed(conn[c], "close_error"))
    /\ UNCHANGED <<threadVars, cacheVars, logVars, accepted, fn, others>>

\* is_blocked(host): the generator expression reads the global once and
\* iterates over that list object
IsBlockedCall(c) ==
    /\ conn[c].pc = "classified"
    /\ Set(c, [conn[c] EXCEPT !.pc = "check", !.it_ref = blocked_sites,
                              !.it_idx = 1, !.seen = <<>>])
    /\ UNCHANGED <<threadVars, cacheVars, logVars, accepted, fn, others>>

\* the entry the iteration is at
SiteAt(c) == lists[conn[c].it_ref][conn[c].it_idx]

AtEnd(c) == conn[c].it_idx > Len(lists[conn[c].it_ref])

\* any(): an entry that is not in the host, on to the next one
NextSite(c) ==
    /\ conn[c].pc = "check"
    /\ ~AtEnd(c)
    /\ ~SiteMatches(SiteAt(c), conn[c].target.host)
    /\ Set(c, [conn[c] EXCEPT !.it_idx = @ + 1, !.seen = Append(@, SiteAt(c))])
    /\ UNCHANGED <<threadVars, cacheVars, logVars, accepted, fn, others>>

\* the 403 the handler writes for a blocked target, by branch
Reply403(kind) == IF kind = "connect" THEN "403_connect" ELSE "403_http"

\* a variant: the plain-HTTP branch goes on without the check
BlockedConnectOnly(c) ==
    /\ conn[c].pc = "check"
    /\ ~AtEnd(c)
    /\ SiteMatches(SiteAt(c), conn[c].target.host)
    /\ LET blocks == conn[c].target.kind = "connect"
           status == IF blocks THEN "BLOCKED" ELSE "ALLOWED"
       IN  /\ log_queue' = enqueue_log(log_queue, c, conn[c].target.host, status)
           /\ Set(c, [conn[c] EXCEPT !.pc = IF blocks THEN "reject" ELSE "connect",
                                     !.decision = status,
                                     !.seen = Append(@, SiteAt(c)),
                                     !.emitted = @ + 1,
                                     !.events = Append(@, "enqueue")])
    /\ UNCHANGED <<threadVars, cacheVars, worker, posted, acked, lastPost,
                   fails, accepted, fn, others>>

\* a variant: the 403 written before the outcome is enqueued
BlockedRepliesFirst(c) ==
    /\ conn[c].pc = "check"
    /\ ~AtEnd(c)
    /\ SiteMatches(SiteAt(c), conn[c].target.host)
    /\ log_queue' = enqueue_log(log_queue, c, conn[c].target.host, "BLOCKED")
    /\ Set(c, Closed([conn[c] EXCEPT
                        !.decision = "BLOCKED",
                        !.seen = Append(@, SiteAt(c)),
                        !.emitted = @ + 1,
                        !.events = <<Reply403(conn[c].target.kind), "enqueue">>],
                     "close"))
    /\ UNCHANGED <<threadVars, cacheVars, worker, posted, acked, lastPost,
                   fails, accepted, fn, others>>

\* is_blocked(host) is true: enqueue_log(host, "BLOCKED")
Blocked(c) ==
    /\ conn[c].pc = "check"
    /\ ~AtEnd(c)
    /\ SiteMatches(SiteAt(c), conn[c].target.host)
    /\ log_queue' = enqueue_log(log_queue, c, conn[c].target.host, "BLOCKED")
    /\ Set(c, [conn[c] EXCEPT !.pc = "reject", !.decision = "BLOCKED",
                              !.seen = Append(@, SiteAt(c)),
                              !.emitted = @ + 1,
                              !.events = Append(@, "enqueue")])
    /\ UNCHANGED <<threadVars, cacheVars, worker, posted, acked, lastPost,
                   fails, accepted, fn, others>>

\* a variant: log_queue = Queue(maxsize=1), whose put waits for a free slot
AllowedBoundedQueue(c) ==
    /\ conn[c].pc = "check"
    /\ AtEnd(c)
    /\ Len(log_queue) < 1
    /\ log_queue' = enqueue_log(log_queue, c, conn[c].target.host, "ALLOWED")
    /\ Set(c, [conn[c] EXCEPT !.pc = "connect", !.decision = "ALLOWED",
                              !.emitted = @ + 1,
                              !.events = Append(@, "enqueue")])
    /\ UNCHANGED <<threadVars, cacheVars, worker, posted, acked, lastPost,
                   fails, accepted, fn, others>>

\* is_blocked(host) is false: enqueue_log(host, "ALLOWED")
Allowed(c) ==
    /\ conn[c].pc = "check"
    /\ AtEnd(c)
    /\ log_queue' = enqueue_log(log_queue, c, conn[c].target.host, "ALLOWED")
    /\ Set(c, [conn[c] EXCEPT !.pc = "connect", !.decision = "ALLOWED",
                              !.emitted = @ + 1,
                              !.events = Append(@, "enqueue")])
    /\ UNCHANGED <<threadVars, cacheVars, worker, posted, acked, lastPost,
                   fails, accepted, fn, others>>

\* how a sendall / connect / recv on a socket may end
IoResults == {"ok", "error", "timeout"}

\* the blocked branch: sendall(403 ...) with BrokenPipeError passed over (any
\* other error reaches the handler's except), client_conn.close()
Reject(c, res) ==
    /\ conn[c].pc = "reject"
    /\ Set(c, Closed([conn[c] EXCEPT !.events =
                        Append(@, IF res = "ok"
                                  THEN Reply403(conn[c].target.kind)
                                  ELSE "write_failed")],
                     IF res = "ok" THEN "close" ELSE "close_error"))
    /\ UNCHANGED <<threadVars, cacheVars, logVars, accepted, fn, others>>

\* a variant: a failed connect enqueues an outcome of its own
ConnectLogsFailure(c, res) ==
    /\ conn[c].pc = "connect"
    /\ IF res = "ok"
       THEN /\ Set(c, [conn[c] EXCEPT
                         !.pc = IF conn[c].target.kind = "connect"
                                THEN "established" ELSE "sendreq",
                         !.remote = "connected",
                         !.events = Append(@, "connect")])
            /\ UNCHANGED log_queue
       ELSE /\ Set(c, Closed([conn[c] EXCEPT !.remote = "created",
                                !.emitted = @ + 1,
                                !.events = Append(Append(@, "connect_failed"),
                                                  "enqueue")],
                             "close_error"))
            /\ log_queue' = enqueue_log(log_queue, c, conn[c].target.host, "BLOCKED")
    /\ UNCHANGED <<threadVars, cacheVars, worker, posted, acked, lastPost,
                   fails, accepted, fn, others>>

\* a variant: a failed connect answered with a 502 before the close
ConnectReplies502(c, res) ==
    /\ conn[c].pc = "connect"
    /\ IF res = "ok"
       THEN Set(c, [conn[c] EXCEPT
                      !.pc = IF conn[c].target.kind = "connect"
                             THEN "established" ELSE "sendreq",
                      !.remote = "connected",
                      !.events = Append(@, "connect")])
       ELSE Set(c, Closed([conn[c] EXCEPT !.remote = "created",
                             !.events = Append(Append(@, "connect_failed"),
                                               "502")],
                          "close_error"))
    /\ UNCHANGED <<threadVars, cacheVars, logVars, accepted, fn, others>>

\* a variant: the handler goes on after a failed connect as after a good one
ConnectIgnoresFailure(c, res) ==
    /\ conn[c].pc = "connect"
    /\ Set(c, [conn[c] EXCEPT
                  !.pc = IF conn[c].target.kind = "connect"
                         THEN "established" ELSE "sendreq",
                  !.remote = IF res = "ok" THEN "connected" ELSE "created",
                  !.events = Append(@, IF res = "ok" THEN "connect"
                                       ELSE "connect_failed")])
    /\ UNCHANGED <<threadVars, cacheVars, logVars, accepted, fn, others>>

\* the allowed branch: socket.socket(), settimeout(30), remote.connect(...).
\* A failure or a timeout reaches the handler's except: client_conn.close()
Connect(c, res) ==
    /\ conn[c].pc = "connect"
    /\ IF res = "ok"
       THEN Set(c, [conn[c] EXCEPT
                      !.pc = IF conn[c].target.kind = "connect"
                             THEN "established" ELSE "sendreq",
                      !.remote = "connected",
                      !.events = Append(@, "connect")])
       ELSE Set(c, Closed([conn[c] EXCEPT !.remote = "created",
                             !.events = Append(@, "connect_failed")],
                          "close_error"))
    /\ UNCHANGED <<threadVars, cacheVars, logVars, accepted, fn, others>>

\* CONNECT: sendall(200 Connection established), then the two forward tasks
\* are submitted and the handler returns. A failed write reaches the except.
Send200(c, res) ==
    /\ conn[c].pc = "established"
    /\ IF res = "ok"
       THEN Set(c, [conn[c] EXCEPT !.pc = "tunnel",
                                   !.events = Append(@, "200"),
                                   !.fwd = [d \in Dirs |-> "queued"]])
       ELSE Set(c, Closed([conn[c] EXCEPT !.events = Append(@, "write_failed")],
                          "close_error"))
    /\ UNCHANGED <<threadVars, cacheVars, logVars, accepted, fn, others>>

\* plain HTTP: remote.sendall(request.replace(url, path))
SendRequest(c, res) ==
    /\ conn[c].pc = "sendreq"
    /\ IF res = "ok"
       THEN Set(c, [conn[c] EXCEPT
                      !.pc = "relay",
                      !.remoteIn = RewriteRequest(conn[c].request,
                                                  conn[c].target.url,
                                                  conn[c].target.path)])
       ELSE Set(c, Closed(conn[c], "close_error"))
    /\ UNCHANGED <<threadVars, cacheVars, logVars, accepted, fn, others>>

\* what a recv may return: bytes, the end of the stream, an error, a timeout
RecvResults == {"data", "eof", "error", "timeout"}

\* a variant: at the end of the stream the handler closes the remote socket
\* and returns, the client socket stays open
RelayStepKeepsClientOpen(c, got, res) ==
    /\ conn[c].pc = "relay"
    /\ got # "data" => res = "ok"
    /\ IF got = "data" /\ res = "ok"
       THEN Set(c, [conn[c] EXCEPT !.events = Note(@, "data"),
                                   !.parity = 1 - @])
       ELSE IF got = "eof"
       THEN Set(c, [conn[c] EXCEPT !.pc = "closed", !.remote = "closed"])
       ELSE Set(c, Closed([conn[c] EXCEPT !.events =
                             Append(@, IF got = "data" THEN "write_failed"
                                       ELSE "read_failed")],
                          "close_error"))
    /\ UNCHANGED <<threadVars, cacheVars, logVars, accepted, fn, others>>

\* plain HTTP: one turn of `data = remote.recv(4096)` / client_conn.sendall(data);
\* at the end of the stream both sockets are closed, on an error only the
\* client's (the handler's except)
RelayTurn(c, got, res) ==
    IF got = "data" /\ res = "ok"
    THEN [conn[c] EXCEPT !.events = Note(@, "data"), !.parity = 1 - @]
    ELSE IF got = "eof"
    THEN [Closed(conn[c], "close") EXCEPT !.remote = "closed"]
    ELSE Closed([conn[c] EXCEPT !.events =
                   Append(@, IF got = "data" THEN "write_failed"
                             ELSE "read_failed")],
                "close_error")

\* one turn of the relay loop, whatever the bytes are
RelayStep(c, got, res) ==
    /\ conn[c].pc = "relay"
    /\ got # "data" => res = "ok"
    /\ Set(c, RelayTurn(c, got, res))
    /\ UNCHANGED <<threadVars, cacheVars, logVars, accepted, fn, others>>

\* The handler's except clauses close client_conn only. The socket object
\* bound to `remote` is unreferenced once the handler has returned, and the
\* interpreter closes it whenever it finalizes the object: at once, later, or
\* not before the process ends.
Finalize(c) ==
    /\ conn[c].pc = "closed"
    /\ conn[c].remote \in {"created", "connected"}
    /\ Set(c, [conn[c] EXCEPT !.remote = "closed"])
    /\ UNCHANGED <<threadVars, cacheVars, logVars, accepted, fn, others>>

(***************************************************************************)
(* forward                                                                 *)
(***************************************************************************)
\* a pool worker picks a forward task up
StartForward(c, d) ==
    /\ conn[c].fwd[d] = "queued"
    /\ Busy < MAX_THREADS
    /\ Set(c, [conn[c] EXCEPT !.fwd[d] = "running"])
    /\ UNCHANGED <<threadVars, cacheVars, logVars, accepted, fn, others>>

SocketsOpen(c) == conn[c].client = "open" /\ conn[c].remote = "connected"

\* a variant: the task closes its source only, not its destination
ForwardStepClosesSource(c, d, got, res) ==
    /\ conn[c].fwd[d] = "running"
    /\ got # "data" => res = "ok"
    /\ ~SocketsOpen(c) => got = "error"
    /\ IF got = "data" /\ res = "ok"
       THEN Set(c, [conn[c] EXCEPT
                      !.events = IF d = "r2c" THEN Note(@, "data") ELSE @,
                      !.parity = 1 - @])
       ELSE IF d = "c2r"
       THEN Set(c, [conn[c] EXCEPT !.fwd[d] = "done", !.client = "closed"])
       ELSE Set(c, [conn[c] EXCEPT !.fwd[d] = "done", !.remote = "closed"])
    /\ UNCHANGED <<threadVars, cacheVars, logVars, accepted, fn, others>>

\* forward(source, destination): one turn of recv / sendall, or the end of
\* the loop (end of stream, an error, a socket the other direction closed),
\* where both sockets are closed
ForwardTurn(c, d, got, res) ==
    IF got = "data" /\ res = "ok"
    THEN [conn[c] EXCEPT !.events = IF d = "r2c" THEN Note(@, "data") ELSE @,
                         !.parity = 1 - @]
    ELSE [conn[c] EXCEPT !.fwd[d] = "done", !.client = "closed",
                         !.remote = "closed"]

\* one turn of a direction, whatever the bytes are
ForwardStep(c, d, got, res) ==
    /\ conn[c].fwd[d] = "running"
    /\ got # "data" => res = "ok"
    /\ ~SocketsOpen(c) => got = "error"
    /\ Set(c, ForwardTurn(c, d, got, res))
    /\ UNCHANGED <<threadVars, cacheVars, logVars, accepted, fn, others>>

(***************************************************************************)
(* The proxy                                                               *)
(***************************************************************************)
\* start_proxy up to the accept loop
StartNext ==
    \/ \E resp \in FetchResponses : StartFetch(resp)
    \/ SpawnRefresh
    \/ SpawnLogWorker

\* the refresh thread
RefreshNext == \E resp \in FetchResponses : RefreshFetch(resp)

\* the log_worker thread
WorkerNext ==
    \/ LogGet
    \/ \E res \in PostResults : LogPost(res)
    \/ LogWake

\* the listener and handle_client up to the decision, for the connections C
\* sending requests of R
HandlerNext(C, R) ==
    \/ \E c \in C : Accept(c)
    \/ \E c \in C : StartHandler(c)
    \/ \E c \in C, req \in R : Recv(c, req)
    \/ \E c \in C : RecvError(c)
    \/ \E c \in C : IsBlockedCall(c)
    \/ \E c \in C : NextSite(c)
    \/ \E c \in C : Blocked(c)
    \/ \E c \in C : Allowed(c)

\* handle_client after the decision
IoNext(C) ==
    \/ \E c \in C, res \in IoResults : Reject(c, res)
    \/ \E c \in C, res \in IoResults : Connect(c, res)
    \/ \E c \in C, res \in IoResults : Send200(c, res)
    \/ \E c \in C, res \in IoResults : SendRequest(c, res)
    \/ \E c \in C, got \in RecvResults, res \in IoResults : RelayStep(c, got, res)

\* the forward tasks of the tunnels
ForwardNext(C) ==
    \/ \E c \in C, d \in Dirs : StartForward(c, d)
    \/ \E c \in C, d \in Dirs, got \in RecvResults, res \in IoResults :
          ForwardStep(c, d, got, res)

\* The proxy serving its connections while the blocklist is refreshed. The
\* log_worker thread (LogSpec), the forward tasks and the finalizer of the
\* sockets (TunnelSpec, FairSpec) are left out here: no handler reads what
\* they write.
Next ==
    \/ StartNext
    \/ RefreshNext
    \/ HandlerNext(1..MaxConns, Requests)
    \/ IoNext(1..MaxConns)

Spec == Init /\ [][Next]_vars

\* The same with the two forward tasks of every tunnel.
TunnelNext ==
    \/ Next
    \/ ForwardNext(1..MaxConns)
    \/ \E c \in 1..MaxConns : Finalize(c)

TunnelSpec == Init /\ [][TunnelNext]_vars

\* the next step of the handler of c, wherever it is
HandlerStep(c) ==
    \/ StartHandler(c)
    \/ \E req \in Requests : Recv(c, req)
    \/ RecvError(c)
    \/ IsBlockedCall(c)
    \/ NextSite(c)
    \/ Blocked(c)
    \/ Allowed(c)
    \/ \E res \in IoResults : Reject(c, res)
    \/ \E res \in IoResults : Connect(c, res)
    \/ \E res \in IoResults : Send200(c, res)
    \/ \E res \in IoResults : SendRequest(c, res)
    \/ \E got \in RecvResults, res \in IoResults : RelayStep(c, got, res)

\* the next step of the forward task of c in the direction d
ForwardTask(c, d) ==
    \/ StartForward(c, d)
    \/ \E got \in RecvResults, res \in IoResults : ForwardStep(c, d, got, res)

\* The connections from accept to their end, with the blocklist as
\* start_proxy fetched it. Every task the pool runs goes on: a blocking
\* recv, connect or sendall returns (each socket has a timeout of 30 s) and
\* the pool hands a free worker to a waiting task.
FairNext ==
    \/ StartNext
    \/ HandlerNext(1..MaxConns, Requests)
    \/ IoNext(1..MaxConns)
    \/ ForwardNext(1..MaxConns)
    \/ \E c \in 1..MaxConns : Finalize(c)

FairSpec ==
    /\ Init
    /\ [][FairNext]_vars
    /\ \A c \in 1..MaxConns : WF_vars(HandlerStep(c))
    /\ \A c \in 1..MaxConns, d \in Dirs : WF_vars(ForwardTask(c, d))

\* a pool worker takes a task (a handler or a forward) of a connection beyond
\* the modelled ones
OtherTaskStart ==
    /\ Busy < MAX_THREADS
    /\ others' = others + 1
    /\ UNCHANGED <<threadVars, cacheVars, logVars, accepted, conn, fn>>

\* such a task returns and frees its worker
OtherTaskEnd ==
    /\ others > MAX_THREADS - MaxFree
    /\ others' = others - 1
    /\ UNCHANGED <<threadVars, cacheVars, logVars, accepted, conn, fn>>

\* The proxy in service with its pool near capacity: start_proxy has fetched
\* the blocklist [SiteX] and started its two threads, and tasks of other
\* connections occupy all but a few of the MAX_THREADS workers.
PoolInit ==
    /\ main_pc = "accept"
    /\ refresher = "running"
    /\ blocked_sites = 2
    /\ lists = <<(<<>>), <<SiteX>>>>
    /\ published = <<(<<>>), <<SiteX>>>>
    /\ fetches = 1
    /\ lastFetch = "ok"
    /\ log_queue = <<>>
    /\ worker = [pc |-> "get", entry |-> NoEntry]
    /\ posted = [c \in Conns |-> 0]
    /\ acked = [c \in Conns |-> 0]
    /\ lastPost = [c \in Conns |-> "none"]
    /\ fails = 0
    /\ accepted = 0
    /\ conn = [c \in Conns |-> NewConn]
    /\ fn = NoFn
    /\ others \in (MAX_THREADS - MaxFree)..MAX_THREADS

\* the clients ask for tunnels to a host that is not blocked
PoolRequests == {ReqConnectOk}

PoolNext ==
    \/ \E c \in 1..MaxPoolConns : Accept(c)
    \/ \E c \in 1..MaxPoolConns : StartHandler(c)
    \/ \E c \in 1..MaxPoolConns, req \in PoolRequests : Recv(c, req)
    \/ \E c \in 1..MaxPoolConns : IsBlockedCall(c)
    \/ \E c \in 1..MaxPoolConns : NextSite(c)
    \/ \E c \in 1..MaxPoolConns : Allowed(c)
    \/ \E c \in 1..MaxPoolConns, res \in IoResults : Connect(c, res)
    \/ \E c \in 1..MaxPoolConns, res \in IoResults : Send200(c, res)
    \/ ForwardNext(1..MaxPoolConns)
    \/ OtherTaskStart
    \/ OtherTaskEnd

\* The executor's work queue is first in, first out: a waiting handler is not
\* passed over for ever once workers keep coming free.
PoolSpec ==
    /\ PoolInit
    /\ [][PoolNext]_vars
    /\ \A c \in 1..MaxPoolConns : SF_vars(StartHandler(c))

\* The log pipeline: the handlers as producers, up to the I/O that follows the
\* decision, log_worker as the consumer, the blocklist as start_proxy fetched
\* it. The thread of log_worker loops for the life of the process and is
\* scheduled fairly.
LogRequests == {ReqConnectBet, ReqConnectOk}

LogNext ==
    \/ StartNext
    \/ WorkerNext
    \/ HandlerNext(1..MaxLogConns, LogRequests)
    \/ \E c \in 1..MaxLogConns, res \in IoResults : Reject(c, res)
    \/ \E c \in 1..MaxLogConns, res \in IoResults : Connect(c, res)

\* The handlers up to their connect or their 403, for clients that write
\* the host of a blocked site in capitals or in small letters
CaseRequests == {ReqConnectBet, ReqGetBet, ReqConnectBetUpper, ReqGetBetMixed}

CaseNext ==
    \/ StartNext
    \/ HandlerNext(1..MaxConns, CaseRequests)
    \/ \E c \in 1..MaxConns, res \in IoResults : Reject(c, res)
    \/ \E c \in 1..MaxConns, res \in IoResults : Connect(c, res)

CaseSpec == Init /\ [][CaseNext]_vars

LogSpec ==
    /\ Init
    /\ [][LogNext]_vars
    /\ WF_vars(LogGet)
    /\ WF_vars(\E res \in PostResults : LogPost(res))
    /\ WF_vars(LogWake)

(***************************************************************************)
(* is_blocked applied to bounded hosts and blocklists                      *)
(***************************************************************************)
\* the sequences over `alphabet` of length at most n
Strings(alphabet, n) == UNION {[1..k -> alphabet] : k \in 0..n}

\* "mybet365.com" and "bet365.com"
HostMyBet365 == <<"m", "y", "b", "e", "t", "3", "6", "5", ".", "c", "o", "m">>
SiteBet365 == <<"b", "e", "t", "3", "6", "5", ".", "c", "o", "m">>

PureHosts == Strings({"a", "b"}, MaxHostLen) \cup {HostMyBet365}
PureSites == Strings({"a", "b"}, MaxSiteLen)
PureLists == Strings(PureSites, MaxSites) \cup {<<SiteBet365>>}

PureInit ==
    /\ InitProxy
    /\ fn \in [op : {"is_blocked"}, host : PureHosts, sites : PureLists,
               done : {FALSE}, result : {FALSE}]
    /\ others = 0

\* is_blocked(host) with blocked_sites bound to fn.sites
ApplyIsBlocked ==
    /\ fn.op = "is_blocked"
    /\ ~fn.done
    /\ fn' = [fn EXCEPT !.done = TRUE, !.result = is_blocked(fn.host, fn.sites)]
    /\ UNCHANGED <<threadVars, cacheVars, logVars, accepted, conn, others>>

PureNext == ApplyIsBlocked

PureSpec == PureInit /\ [][PureNext]_vars

(***************************************************************************)
(* The parsing of the target applied to request lines built from their     *)
(* parts                                                                   *)
(***************************************************************************)
\* spellings of the CONNECT method, and other methods
ConnectSpellings ==
    {CONNECT, <<"c", "o", "n", "n", "e", "c", "t">>,
     <<"C", "o", "n", "n", "e", "c", "T">>}
ParseMethods == ConnectSpellings \cup {GET, <<"g", "e", "t">>}

Scheme == <<"h">> \o SchemeSep
ParseHosts == {HostBet, HostOk}
\* a port as the client writes it, with the number it stands for
PortTexts ==
    {[text |-> <<"8">>, val |-> 8], [text |-> <<"8", "0">>, val |-> 80],
     [text |-> <<"4", "4", "3">>, val |-> 443]}
\* what follows the first "/" of a target
Rests == {<<>>, <<"a">>, <<"a", "/", "b">>, <<"a", ":", "/", "/", "b">>}

\* the target [scheme]host[:port][/rest] of f
TargetOf(f) ==
    f.scheme \o f.host
        \o (IF f.hasPort THEN <<":">> \o f.port.text ELSE <<>>)
        \o (IF f.hasRest THEN <<"/">> \o f.rest ELSE <<>>)

\* the bytes of the request: method, target, version
RequestOf(f) == f.method \o <<" ">> \o TargetOf(f) \o HttpVersion

ParseInit ==
    /\ InitProxy
    /\ others = 0
    /\ fn \in [op : {"parse"}, method : ParseMethods, scheme : {<<>>, Scheme},
               host : ParseHosts, hasPort : BOOLEAN, port : PortTexts,
               hasRest : BOOLEAN, rest : Rests, done : {FALSE},
               result : {NoTarget}]

\* handle_client from the recv to host, port and path
ApplyParseTarget ==
    /\ fn.op = "parse"
    /\ ~fn.done
    /\ fn' = [fn EXCEPT !.done = TRUE,
                        !.result = ParseTarget(RequestParts(RequestOf(fn)))]
    /\ UNCHANGED <<threadVars, cacheVars, logVars, accepted, conn, others>>

ParseNext == ApplyParseTarget

ParseSpec == ParseInit /\ [][ParseNext]_vars

(***************************************************************************)
(* The bytes of a connection. A socket is a stream: what a peer writes     *)
(* arrives in pieces of any size, and a recv(4096) returns what has        *)
(* arrived. csent and rsent are what the client and the remote have        *)
(* written, cbuf and rbuf the part of it the proxy has not read yet,       *)
(* remoteIn and clientIn what the proxy has relayed to the remote and to   *)
(* the client.                                                             *)
(***************************************************************************)
Take(s, n) == SubSeq(s, 1, n)
Drop(s, n) == SubSeq(s, n + 1, Len(s))

\* what a client writes after its request, what a remote answers
Payload == [i \in 1..MaxPayload |-> IF i % 2 = 1 THEN "p" ELSE "q"]
Response == [i \in 1..MaxPayload |-> IF i % 2 = 1 THEN "x" ELSE "y"]

StreamRequests == {ReqConnectOk, ReqGetOk}
ClientScripts == {req \o Payload : req \in StreamRequests}

\* one connection: the sockets of two connections share no bytes
StreamConns == {1}

\* the client writes the next bytes of what it has to say
ClientSend(c, n) ==
    /\ conn[c].client = "open"
    /\ ~conn[c].cfin
    /\ \E s \in ClientScripts :
          /\ Len(conn[c].csent) + n <= Len(s)
          /\ Take(s, Len(conn[c].csent)) = conn[c].csent
          /\ LET bytes == SubSeq(s, Len(conn[c].csent) + 1, Len(conn[c].csent) + n)
             IN  Set(c, [conn[c] EXCEPT !.csent = @ \o bytes,
                                        !.cbuf = @ \o bytes])
    /\ UNCHANGED <<threadVars, cacheVars, logVars, accepted, fn, others>>

\* the client ends its side of the connection
ClientShutdown(c) ==
    /\ conn[c].client = "open"
    /\ ~conn[c].cfin
    /\ Set(c, [conn[c] EXCEPT !.cfin = TRUE])
    /\ UNCHANGED <<threadVars, cacheVars, logVars, accepted, fn, others>>

\* the remote writes the next bytes of its answer
RemoteSend(c, n) ==
    /\ conn[c].remote = "connected"
    /\ ~conn[c].rfin
    /\ Len(conn[c].rsent) + n <= Len(Response)
    /\ LET bytes == SubSeq(Response, Len(conn[c].rsent) + 1, Len(conn[c].rsent) + n)
       IN  Set(c, [conn[c] EXCEPT !.rsent = @ \o bytes, !.rbuf = @ \o bytes])
    /\ UNCHANGED <<threadVars, cacheVars, logVars, accepted, fn, others>>

\* the remote ends its side of the connection
RemoteShutdown(c) ==
    /\ conn[c].remote = "connected"
    /\ ~conn[c].rfin
    /\ Set(c, [conn[c] EXCEPT !.rfin = TRUE])
    /\ UNCHANGED <<threadVars, cacheVars, logVars, accepted, fn, others>>

\* request = client_conn.recv(4096): the bytes that have arrived, or no
\* bytes once the client has ended its side; they are the request
RecvBytes(c) ==
    /\ conn[c].pc = "recv"
    /\ conn[c].cbuf # <<>> \/ conn[c].cfin
    /\ Set(c, [Parsed(c, conn[c].cbuf) EXCEPT !.cbuf = <<>>])
    /\ UNCHANGED <<threadVars, cacheVars, logVars, accepted, fn, others>>

\* a variant: client_conn.send(data), which may write the first bytes only
RelayBytesSendsSome(c, got, res) ==
    /\ conn[c].pc = "relay"
    /\ got # "data" => res = "ok"
    /\ got = "eof" => conn[c].rbuf = <<>> /\ conn[c].rfin
    /\ got = "data" => conn[c].rbuf # <<>>
    /\ \E k \in 0..Len(conn[c].rbuf) :
          /\ res # "ok" => k < Len(conn[c].rbuf)
          /\ Set(c, IF got = "data"
                    THEN [RelayTurn(c, got, res) EXCEPT
                            !.rbuf = <<>>,
                            !.clientIn = @ \o Take(conn[c].rbuf, k)]
                    ELSE RelayTurn(c, got, res))
    /\ UNCHANGED <<threadVars, cacheVars, logVars, accepted, fn, others>>

\* plain HTTP: one turn of the relay loop with its bytes. remote.recv(4096)
\* returns what has arrived, or no bytes at the end of the stream;
\* client_conn.sendall writes them all, or fails having written k of them
RelayBytes(c, got, res) ==
    /\ conn[c].pc = "relay"
    /\ got # "data" => res = "ok"
    /\ got = "eof" => conn[c].rbuf = <<>> /\ conn[c].rfin
    /\ got = "data" => conn[c].rbuf # <<>>
    /\ \E k \in 0..Len(conn[c].rbuf) :
          /\ IF res = "ok" THEN k = Len(conn[c].rbuf) ELSE k < Len(conn[c].rbuf)
          /\ Set(c, IF got = "data"
                    THEN [RelayTurn(c, got, res) EXCEPT
                            !.rbuf = <<>>,
                            !.clientIn = @ \o Take(conn[c].rbuf, k)]
                    ELSE RelayTurn(c, got, res))
    /\ UNCHANGED <<threadVars, cacheVars, logVars, accepted, fn, others>>

\* forward(source, destination): one turn of a direction with its bytes
ForwardBytes(c, d, got, res) ==
    LET buf == IF d = "c2r" THEN conn[c].cbuf ELSE conn[c].rbuf
        fin == IF d = "c2r" THEN conn[c].cfin ELSE conn[c].rfin
        r == ForwardTurn(c, d, got, res)
    IN  /\ conn[c].fwd[d] = "running"
        /\ got # "data" => res = "ok"
        /\ ~SocketsOpen(c) => got = "error"
        /\ got = "eof" => buf = <<>> /\ fin
        /\ got = "data" => buf # <<>>
        /\ \E k \in 0..Len(buf) :
              /\ IF res = "ok" THEN k = Len(buf) ELSE k < Len(buf)
              /\ Set(c, IF got # "data" THEN r
                        ELSE IF d = "c2r"
                        THEN [r EXCEPT !.cbuf = <<>>,
                                       !.remoteIn = @ \o Take(buf, k)]
                        ELSE [r EXCEPT !.rbuf = <<>>,
                                       !.clientIn = @ \o Take(buf, k)])
        /\ UNCHANGED <<threadVars, cacheVars, logVars, accepted, fn, others>>

\* the proxy in service, its blocklist fetched
StreamInit ==
    /\ main_pc = "accept"
    /\ refresher = "running"
    /\ blocked_sites = 2
    /\ lists = <<(<<>>), <<SiteX>>>>
    /\ published = <<(<<>>), <<SiteX>>>>
    /\ fetches = 1
    /\ lastFetch = "ok"
    /\ log_queue = <<>>
    /\ worker = [pc |-> "get", entry |-> NoEntry]
    /\ posted = [c \in Conns |-> 0]
    /\ acked = [c \in Conns |-> 0]
    /\ lastPost = [c \in Conns |-> "none"]
    /\ fails = 0
    /\ accepted = 0
    /\ conn = [c \in Conns |-> NewConn]
    /\ fn = NoFn
    /\ others = 0

\* a connection and its two peers, byte by byte
StreamNext ==
    \/ \E c \in StreamConns : Accept(c)
    \/ \E c \in StreamConns : StartHandler(c)
    \/ \E c \in StreamConns, n \in 1..(MaxPayload + 1) : ClientSend(c, n)
    \/ \E c \in StreamConns : ClientShutdown(c)
    \/ \E c \in StreamConns : RecvBytes(c)
    \/ \E c \in StreamConns : RecvError(c)
    \/ \E c \in StreamConns : IsBlockedCall(c)
    \/ \E c \in StreamConns : NextSite(c)
    \/ \E c \in StreamConns : Allowed(c)
    \/ \E c \in StreamConns, res \in IoResults : Connect(c, res)
    \/ \E c \in StreamConns, res \in IoResults : Send200(c, res)
    \/ \E c \in StreamConns, res \in IoResults : SendRequest(c, res)
    \/ \E c \in StreamConns, n \in 1..(MaxPayload + 1) : RemoteSend(c, n)
    \/ \E c \in StreamConns : RemoteShutdown(c)
    \/ \E c \in StreamConns, got \in RecvResults, res \in IoResults :
          RelayBytes(c, got, res)
    \/ \E c \in StreamConns, d \in Dirs : StartForward(c, d)
    \/ \E c \in StreamConns, d \in Dirs, got \in RecvResults,
          res \in IoResults : ForwardBytes(c, d, got, res)

StreamSpec == StreamInit /\ [][StreamNext]_vars

(***************************************************************************)
(* Properties                                                              *)
(***************************************************************************)
\* the handler of c has taken its decision
Decided(c) == conn[c].decision # "none"

\* the list object the handler of c evaluated is_blocked over
SnapshotOf(c) == lists[conn[c].it_ref]

Has(events, e) == \E i \in 1..Len(events) : events[i] = e

\* C1. Block correctness: a handler that finds its host blocked under the
\* snapshot it read logs BLOCKED, answers with the 403 of its branch (its only
\* write to the client, lost only if that write itself fails), and creates no
\* outbound socket, whatever the refresh task does meanwhile.
C1_BlockCorrectness ==
    \A c \in Conns :
        (Decided(c) /\ is_blocked(conn[c].target.host, SnapshotOf(c))) =>
            /\ conn[c].decision = "BLOCKED"
            /\ conn[c].remote = "none"
            /\ ~Has(conn[c].events, "connect")
            /\ ~Has(conn[c].events, "connect_failed")
            /\ ~Has(conn[c].events, "200")
            /\ ~Has(conn[c].events, "data")
            /\ conn[c].pc \in {"reject", "closed"}
            /\ conn[c].pc = "reject" => conn[c].events = <<"enqueue">>
            /\ conn[c].pc = "closed" =>
                  \/ conn[c].events =
                        <<"enqueue", Reply403(conn[c].target.kind), "close">>
                  \/ conn[c].events = <<"enqueue", "write_failed", "close_error">>

\* a blocked plain-HTTP request was answered 403 after the refresh task had
\* replaced the snapshot the handler read
C1_Witness ==
    \E c \in Conns :
        /\ conn[c].target.kind = "http"
        /\ conn[c].events = <<"enqueue", "403_http", "close">>
        /\ conn[c].it_ref # blocked_sites
        /\ ~is_blocked(conn[c].target.host, lists[blocked_sites])

\* the substrings of host are host[i+1..j]
IsSubstring(site, host) ==
    \E i \in 0..Len(host) : \E j \in i..Len(host) : SubSeq(host, i + 1, j) = site

\* C2. is_blocked(host) is true exactly when some entry of the snapshot is a
\* contiguous substring of host: "mybet365.com" is blocked by "bet365.com",
\* an empty snapshot blocks nothing, an empty entry blocks every host.
C2_SubstringMatch ==
    (fn.op = "is_blocked" /\ fn.done) =>
        /\ fn.result = (\E k \in 1..Len(fn.sites) : IsSubstring(fn.sites[k], fn.host))
        /\ fn.sites = <<>> => ~fn.result
        /\ (\E k \in 1..Len(fn.sites) : fn.sites[k] = <<>>) => fn.result
        /\ (fn.host = HostMyBet365 /\ fn.sites = <<SiteBet365>>) => fn.result

\* "mybet365.com" was found blocked by the entry "bet365.com"
C2_Witness ==
    /\ fn.op = "is_blocked"
    /\ fn.done
    /\ fn.host = HostMyBet365
    /\ fn.sites = <<SiteBet365>>
    /\ fn.result

\* the hosts is_blocked is compared on, before and after a fetch
ProbeHosts == {HostBet, HostOk, <<"m", "y">> \o HostBet, <<>>}

\* C3. A fetch that fails (no connection, timeout, a status other than 200,
\* a body that does not decode) leaves the global and every list object as
\* they were, so is_blocked answers as before on every host; no handler and
\* no thread is touched by it, and the refresh loop keeps running.
C3_FailedRefreshKeepsSnapshot ==
    [][(fetches' # fetches /\ lastFetch' = "failed") =>
          /\ blocked_sites' = blocked_sites
          /\ lists' = lists
          /\ \A h \in ProbeHosts :
                is_blocked(h, lists'[blocked_sites'])
                  = is_blocked(h, lists[blocked_sites])
          /\ conn' = conn
          /\ main_pc' # "crashed"
          /\ refresher' # "dead"
          /\ refresher = "running" => refresher' = "running"]_vars

\* the refresh thread's fetch failed while a snapshot with entries was
\* published and a handler was in is_blocked
C3_Witness ==
    /\ lastFetch = "failed"
    /\ fetches = 2
    /\ refresher = "running"
    /\ lists[blocked_sites] # <<>>
    /\ \E c \in Conns : conn[c].pc = "check" /\ conn[c].it_idx = 2

IsPrefix(a, b) == Len(a) <= Len(b) /\ SubSeq(b, 1, Len(a)) = a

\* C4. Snapshot atomicity: the entries one evaluation of is_blocked has
\* iterated over are the leading entries of one fetch's list, never entries
\* of two; a fetch binds the global to a new list object and changes no list
\* object that exists.
C4_SnapshotAtomicity ==
    /\ [](\A c \in Conns :
            \E k \in 1..Len(published) : IsPrefix(conn[c].seen, published[k]))
    /\ [][\A r \in DOMAIN lists : lists'[r] = lists[r]]_vars

\* a handler is half way through a list while the refresh task has already
\* published another one, and finishes its iteration over the old one
C4_Witness ==
    \E c \in Conns :
        /\ conn[c].pc = "check"
        /\ conn[c].it_ref # blocked_sites
        /\ lists[blocked_sites] # lists[conn[c].it_ref]
        /\ Len(lists[blocked_sites]) = 2
        /\ conn[c].seen = lists[conn[c].it_ref]
        /\ Len(conn[c].seen) = 2

\* the outcome of c is in the queue or in the hands of log_worker
InPipeline(c) ==
    \/ \E i \in 1..Len(log_queue) : log_queue[i].conn = c
    \/ worker.entry.conn = c

\* C5. An outcome leaves the pipeline only after a POST answered 200: after
\* any other end of the POST (another status, an exception) it is back on the
\* queue.
C5_FailedPostRequeued ==
    \A c \in Conns :
        (conn[c].emitted > 0 /\ ~InPipeline(c)) => acked[c] > 0

\* C6. Eventual log delivery: once the backend answers again, an outcome
\* whose POST did not end in a 200 is POSTed again.
C6_EventualRedelivery ==
    \A c \in 1..MaxLogConns : \A k \in 1..(MaxFail + 1) :
        (posted[c] = k /\ lastPost[c] # "200") ~> (posted[c] > k)

\* the tokens of the first line of every request a client may send
PartsOf == [req \in Requests |-> RequestParts(req)]

\* the first line of c's request has a method and a target token
HasTarget(c) == Len(PartsOf[conn[c].request]) >= 2

\* the handler of c has read its request
HasRead(c) == conn[c].pc \notin {"idle", "queued", "recv"}

\* C7 as claimed: no connection enqueues two outcomes, and a connection whose
\* request line has a method and a target never ends with none, whatever the
\* target is.
C7_OneOutcomePerRequest ==
    \A c \in Conns :
        /\ conn[c].emitted <= 1
        /\ (conn[c].pc = "closed" /\ HasTarget(c)) => conn[c].emitted = 1

\* C7. A connection whose request line has a method and a target enqueues one
\* outcome, at the decision, when the target parses, and none when it does
\* not (a port int() rejects, more than one colon in host:port): then it is
\* closed unlogged. No connection enqueues two.
C7_OneOutcomePerParsedTarget ==
    \A c \in Conns :
        /\ conn[c].emitted <= 1
        /\ Decided(c) <=> conn[c].emitted = 1
        /\ Decided(c) <=> Has(conn[c].events, "enqueue")
        /\ (HasRead(c) /\ HasTarget(c) /\ conn[c].target.ok) =>
              (conn[c].pc \in {"classified", "check"} \/ conn[c].emitted = 1)
        /\ (HasRead(c) /\ HasTarget(c) /\ ~conn[c].target.ok) =>
              (conn[c].pc = "closed" /\ conn[c].emitted = 0)

\* one connection ended after its single outcome and a failed connect,
\* or ended unlogged on a port that is no number
C7_Witness ==
    \E c \in Conns :
        /\ conn[c].pc = "closed"
        /\ \/ conn[c].request = ReqGetOk /\ conn[c].emitted = 1
                /\ Has(conn[c].events, "connect_failed")
           \/ conn[c].request = ReqConnectBadPort /\ conn[c].emitted = 0

\* the handler's writes to the client and its connect
IoEvents ==
    {"403_connect", "403_http", "200", "data", "write_failed", "connect",
     "connect_failed"}

\* C8. Decision before I/O: on every connection the outcome is enqueued
\* before the handler writes anything to the client (the 403, the 200, the
\* remote's bytes) and before it creates and connects the remote socket.
C8_DecisionBeforeIo ==
    \A c \in Conns :
        /\ \A i \in 1..Len(conn[c].events) :
              conn[c].events[i] \in IoEvents =>
                  \E j \in 1..(i - 1) : conn[c].events[j] = "enqueue"
        /\ (conn[c].remote # "none" \/ conn[c].remoteIn # <<>>) =>
              conn[c].emitted = 1

\* the remote's bytes were relayed to the client of a plain-HTTP request
C8_Witness ==
    \E c \in Conns :
        /\ conn[c].target.kind = "http"
        /\ conn[c].events = <<"enqueue", "connect", "data">>

\* C9. Upstream connect failure: the handler closes the client socket, has
\* written and writes nothing to the client, enqueues nothing more, and the
\* step leaves the queue, with the ALLOWED outcome in it, as it was.
C9_ConnectFailure ==
    /\ [](\A c \in Conns :
            Has(conn[c].events, "connect_failed") =>
                /\ conn[c].pc = "closed"
                /\ conn[c].client = "closed"
                /\ conn[c].events = <<"enqueue", "connect_failed", "close_error">>
                /\ conn[c].decision = "ALLOWED"
                /\ conn[c].emitted = 1)
    /\ [][\A c \in Conns :
            (conn[c].pc = "connect" /\ conn'[c].pc = "closed") =>
                /\ log_queue' = log_queue
                /\ worker' = worker
                /\ posted' = posted
                /\ acked' = acked
                /\ conn'[c].emitted = conn[c].emitted]_vars

\* the connect of an allowed plain-HTTP request failed, its ALLOWED outcome
\* is on the queue
C9_Witness ==
    \E c \in Conns :
        /\ conn[c].target.kind = "http"
        /\ conn[c].decision = "ALLOWED"
        /\ Has(conn[c].events, "connect_failed")
        /\ conn[c].client = "closed"
        /\ log_queue = <<[conn |-> c, domain |-> conn[c].target.host,
                          status |-> "ALLOWED"]>>

\* the request with the target token of its request line replaced by path
OriginForm(request, path) ==
    LET target == RequestParts(request)[2]
        i == Find(request, target, 1)
    IN  SubSeq(request, 1, i - 1) \o path
          \o SubSeq(request, i + Len(target), Len(request))

\* C10. An allowed plain-HTTP request with an absolute URI is forwarded with
\* the URI of its request line replaced by the path alone, every other byte
\* as the client sent it.
C10_OriginFormRewrite ==
    \A c \in Conns :
        (/\ conn[c].pc = "relay"
         /\ conn[c].target.kind = "http"
         /\ Contains(RequestParts(conn[c].request)[2], SchemeSep)) =>
            /\ conn[c].remoteIn = OriginForm(conn[c].request, conn[c].target.path)
            /\ ~Contains(SplitOnce(conn[c].remoteIn, <<"\n">>)[1], SchemeSep)

\* C11. Failure semantics: once a connection whose remote socket was
\* connected has its client socket closed, by an error or a timeout of the
\* handler or by the end of a tunnel direction, its remote socket is closed
\* too.
C11_ErrorClosesBothSockets ==
    \A c \in Conns :
        (conn[c].client = "closed" /\ Has(conn[c].events, "connect")) =>
            conn[c].remote = "closed"

\* the other direction of a tunnel
OtherDir(d) == IF d = "c2r" THEN "r2c" ELSE "c2r"

\* C12. Tunnel teardown: when a direction of a tunnel has ended, both sockets
\* of the pair are closed, and the other direction ends as well, whether it
\* was running or still waiting for a pool worker.
C12_TunnelTeardown ==
    /\ [](\A c \in Conns, d \in Dirs :
            conn[c].fwd[d] = "done" =>
                (conn[c].client = "closed" /\ conn[c].remote = "closed"))
    /\ \A c \in 1..MaxConns, d \in Dirs :
            (conn[c].fwd[d] = "done") ~> (conn[c].fwd[OtherDir(d)] = "done")

\* a direction has ended while the other one had not started
C12_Witness ==
    \E c \in Conns, d \in Dirs :
        /\ conn[c].fwd[d] = "done"
        /\ conn[c].fwd[OtherDir(d)] = "queued"
        /\ conn[c].client = "closed"
        /\ conn[c].remote = "closed"

\* C13. Once the 200 of a CONNECT is written, each of the two directions can
\* be started at once, however many handlers and forward tasks occupy the
\* pool.
C13_DirectionsNotHeldBack ==
    \A c \in Conns, d \in Dirs :
        conn[c].fwd[d] = "queued" => ENABLED StartForward(c, d)

\* C14. Malformed request: a handler whose first read brought no bytes, or a
\* first line of fewer than two tokens, has closed the client socket and has
\* done nothing else: no outcome enqueued, no look at the blocklist, no
\* outbound socket, no byte written to the client.
C14_MalformedSilentClose ==
    \A c \in Conns :
        /\ (HasRead(c) /\ ~HasTarget(c)) =>
              /\ conn[c].pc = "closed"
              /\ conn[c].client = "closed"
              /\ conn[c].events \in {<<"close_malformed">>, <<"close_error">>}
              /\ conn[c].emitted = 0
              /\ conn[c].decision = "none"
              /\ conn[c].it_ref = 0
              /\ conn[c].remote = "none"
              /\ conn[c].remoteIn = <<>>
              /\ \A i \in 1..Len(log_queue) : log_queue[i].conn # c
        /\ Has(conn[c].events, "close_malformed") => ~HasTarget(c)

\* a request of one token and a read of no bytes have been closed
C14_Witness ==
    \E c \in Conns :
        /\ conn[c].request \in {ReqOneToken, ReqEmpty}
        /\ conn[c].events = <<"close_malformed">>
        /\ conn[c].client = "closed"

\* the state of the handler of c, in the words of the design
StateOf(c) ==
    IF conn[c].client = "closed" THEN "CLOSED"
    ELSE IF conn[c].pc \in {"idle", "queued"} THEN "ACCEPTING"
    ELSE IF conn[c].pc = "recv" THEN "READING_REQUEST_LINE"
    ELSE IF conn[c].pc \in {"classified", "check"} THEN "CLASSIFYING"
    ELSE IF conn[c].pc = "reject" THEN "REJECTED"
    ELSE IF conn[c].target.kind = "connect" THEN "TUNNELING"
    ELSE "RELAYING_HTTP"

\* the steps from one state to the next
StateSteps ==
    {<<"ACCEPTING", "READING_REQUEST_LINE">>,
     <<"READING_REQUEST_LINE", "CLASSIFYING">>,
     <<"READING_REQUEST_LINE", "CLOSED">>,
     <<"CLASSIFYING", "REJECTED">>,
     <<"CLASSIFYING", "TUNNELING">>,
     <<"CLASSIFYING", "RELAYING_HTTP">>,
     <<"REJECTED", "CLOSED">>,
     <<"TUNNELING", "CLOSED">>,
     <<"RELAYING_HTTP", "CLOSED">>}

\* every step of a connection is a step of the state machine
FollowsStates ==
    [][\A c \in Conns :
          StateOf(c)' # StateOf(c) => <<StateOf(c), StateOf(c)'>> \in StateSteps]_vars

\* a relay of c is copying
Relaying(c) ==
    \/ conn[c].pc = "relay"
    \/ \E d \in Dirs : conn[c].fwd[d] = "running"

\* C15 as claimed: every accepted connection follows the state machine and
\* reaches CLOSED with its client socket closed, when every blocking call
\* returns and the pool's tasks are scheduled fairly.
C15_HandlerReachesClosed ==
    /\ FollowsStates
    /\ \A c \in 1..MaxConns :
          (conn[c].client = "open") ~> (StateOf(c) = "CLOSED")

\* C15. Every accepted connection follows the state machine, and reaches
\* CLOSED with its client socket closed unless a relay of it goes on copying
\* for ever: a read that returns data keeps the relay loop going, only the end
\* of the stream, an error or a timeout ends it.
C15_ClosedUnlessRelaying ==
    /\ FollowsStates
    /\ \A c \in 1..MaxConns :
          \/ (conn[c].client = "open") ~> (StateOf(c) = "CLOSED")
          \/ <>[]Relaying(c)

\* a tunnel that relayed data has been closed by the end of a direction
C15_Witness ==
    \E c \in Conns :
        /\ StateOf(c) = "CLOSED"
        /\ conn[c].pc = "tunnel"
        /\ Has(conn[c].events, "data")
        /\ \A d \in Dirs : conn[c].fwd[d] = "done"

\* C16. enqueue_log never blocks its caller: a handler at its decision can
\* take its step, and a handler that has enqueued can go on to its reject or
\* connect, whatever the length of the queue and wherever log_worker is; and
\* no step of log_worker touches a connection.
C16_EnqueueNeverBlocks ==
    /\ [](\A c \in Conns :
            /\ conn[c].pc = "check" =>
                  ENABLED (NextSite(c) \/ Blocked(c) \/ Allowed(c))
            /\ conn[c].pc = "reject" =>
                  ENABLED (\E res \in IoResults : Reject(c, res))
            /\ conn[c].pc = "connect" =>
                  ENABLED (\E res \in IoResults : Connect(c, res)))
    /\ [][(worker' # worker \/ posted' # posted) => conn' = conn]_vars

\* a handler has enqueued behind a backlog while log_worker sleeps after a
\* failed POST
C16_Witness ==
    \E c \in Conns :
        /\ worker.pc = "sleep"
        /\ Len(log_queue) >= 2
        /\ log_queue[Len(log_queue)].conn = c
        /\ conn[c].pc \in {"reject", "connect"}

\* the handler of c waits in the executor's queue
Queued(c) == conn[c].pc = "queued"

\* C17. The listener hands every accepted connection to the pool and drops
\* none: accept goes on when every worker is busy, the new handler waits in
\* the queue until a worker starts it, never more than MAX_THREADS tasks run
\* at a time, and a waiting handler is started once workers come free.
C17_PoolQueuesHandlers ==
    /\ [](Busy <= MAX_THREADS)
    /\ [](accepted < MaxPoolConns => ENABLED Accept(accepted + 1))
    /\ [](\A c \in Conns : c <= accepted <=> conn[c].pc # "idle")
    /\ [][\A c \in Conns :
            /\ (~Queued(c) /\ Queued(c)') => (accepted' = c /\ accepted = c - 1)
            /\ (Queued(c) /\ ~Queued(c)') =>
                  (conn'[c].pc = "recv" /\ Busy < MAX_THREADS)]_vars
    /\ \A c \in 1..MaxPoolConns :
          []<>(Busy < MAX_THREADS) => (Queued(c) ~> ~Queued(c))

\* a second connection is accepted and queued behind the first while all
\* the workers are busy
C17_Witness ==
    /\ Busy = MAX_THREADS
    /\ accepted = 2
    /\ Queued(1)
    /\ Queued(2)

\* C18. Startup ordering: when the listener has accepted a connection, and so
\* whenever a handler exists, the first fetch of the blocklist has been
\* attempted and the refresh thread and the log thread have been started.
C18_StartupOrder ==
    (accepted >= 1 \/ \E c \in Conns : conn[c].pc # "idle") =>
        /\ main_pc = "accept"
        /\ fetches >= 1
        /\ refresher # "none"
        /\ worker.pc # "none"

\* a handler runs after a first fetch that failed, both threads started
C18_Witness ==
    \E c \in Conns :
        /\ conn[c].pc = "recv"
        /\ fetches = 1
        /\ lastFetch = "failed"
        /\ refresher = "running"
        /\ worker.pc = "get"

\* C19. Retry ordering: a POST that does not end in a 200 puts its outcome
\* back at the tail of the queue, behind every outcome waiting there, and the
\* next POST is for the outcome at the head of the queue.
C19_FailedEntryToTail ==
    [][/\ (posted' # posted /\ lastPost'[worker.entry.conn] # "200") =>
             log_queue' = Append(log_queue, worker.entry)
       /\ (worker.pc = "get" /\ worker'.pc = "post") =>
             (worker'.entry = Head(log_queue) /\ log_queue' = Tail(log_queue))]_vars

\* C20. Target parsing: a CONNECT, however the method is spelled, with the
\* target host[:port] yields that host and port, 443 without a port; any other
\* method yields the host and port of the part before the first "/" once a
\* scheme is stripped, 80 without a port, and the path "/" plus what follows
\* that "/", or "/" alone.
C20_TargetParsing ==
    (fn.op = "parse" /\ fn.done) =>
        IF fn.method \in ConnectSpellings
        THEN (fn.scheme = <<>> /\ ~fn.hasRest) =>
                /\ fn.result.ok
                /\ fn.result.kind = "connect"
                /\ fn.result.host = fn.host
                /\ fn.result.port = IF fn.hasPort THEN fn.port.val ELSE 443
        ELSE /\ fn.result.ok
             /\ fn.result.kind = "http"
             /\ fn.result.host = fn.host
             /\ fn.result.port = IF fn.hasPort THEN fn.port.val ELSE 80
             /\ fn.result.path = IF fn.hasRest THEN <<"/">> \o fn.rest
                                 ELSE <<"/">>

\* the position of the first event tagged tag in events, 0 when there is none
FirstAt(events, tag) ==
    IF Has(events, tag)
    THEN CHOOSE i \in 1..Len(events) :
            /\ events[i] = tag
            /\ \A j \in 1..(i - 1) : events[j] # tag
    ELSE 0

\* C21. On the CONNECT path the 200 is written to the client only after the
\* outbound connect has succeeded, and the two relay directions are submitted
\* only after the 200 has been written: a client that received 200 had an
\* allowed CONNECT target whose connect succeeded earlier, and never a failed
\* connect or a 403.
C21_EstablishedAfterConnect ==
    \A c \in Conns :
        /\ Has(conn[c].events, "200") =>
              /\ conn[c].target.kind = "connect"
              /\ conn[c].decision = "ALLOWED"
              /\ Has(conn[c].events, "connect")
              /\ FirstAt(conn[c].events, "connect") < FirstAt(conn[c].events, "200")
              /\ ~Has(conn[c].events, "connect_failed")
              /\ ~Has(conn[c].events, "403_connect")
              /\ conn[c].remote # "created"
        /\ (\E d \in Dirs : conn[c].fwd[d] # "none") =>
              Has(conn[c].events, "200")
        /\ conn[c].pc = "established" =>
              /\ conn[c].remote = "connected"
              /\ \A d \in Dirs : conn[c].fwd[d] = "none"

\* the 200 has been written after the connect and a direction is running
C21_Witness ==
    \E c \in Conns :
        /\ conn[c].events = <<"enqueue", "connect", "200">>
        /\ conn[c].fwd["c2r"] = "running"
        /\ conn[c].fwd["r2c"] = "queued"

\* events ends with the tag e
EndsWith(events, e) == events # <<>> /\ events[Len(events)] = e

\* C22. Plain-HTTP relay, one request/response pair per connection: the
\* buffered request is forwarded to the remote once and nothing after it; what
\* the client has received is, byte for byte and in order, what the remote
\* has sent and the relay has read; at the remote's end of stream the client
\* has all of it and both sockets are closed; after its first recv the
\* handler never reads from the client again.
C22_OneRequestOneResponse ==
    /\ [](\A c \in StreamConns :
            conn[c].target.kind = "http" =>
                /\ conn[c].remoteIn \in
                      {<<>>, RewriteRequest(conn[c].request, conn[c].target.url,
                                            conn[c].target.path)}
                /\ conn[c].remoteIn # <<>> => Has(conn[c].events, "connect")
                /\ IsPrefix(conn[c].clientIn, conn[c].rsent)
                /\ conn[c].pc = "relay" =>
                      /\ conn[c].remoteIn # <<>>
                      /\ conn[c].clientIn \o conn[c].rbuf = conn[c].rsent
                /\ EndsWith(conn[c].events, "close") =>
                      /\ conn[c].clientIn = conn[c].rsent
                      /\ conn[c].rfin
                      /\ conn[c].client = "closed"
                      /\ conn[c].remote = "closed")
    /\ [][\A c \in StreamConns :
            conn[c].target.kind = "http" =>
                /\ IsPrefix(conn[c].cbuf, conn'[c].cbuf)
                /\ conn[c].remoteIn # <<>> => conn'[c].remoteIn = conn[c].remoteIn
                /\ conn'[c].request = conn[c].request]_vars

\* the whole answer has reached the client, both sockets are closed, and what
\* the client sent after its request lies unread
C22_Witness ==
    \E c \in StreamConns :
        /\ conn[c].events = <<"enqueue", "connect", "data", "close">>
        /\ conn[c].clientIn = Response
        /\ conn[c].request = ReqGetOk
        /\ conn[c].cbuf = Payload
        /\ conn[c].remote = "closed"

\* what the client has sent after its CONNECT request
SentAfterConnect(c) ==
    IF Len(conn[c].csent) > Len(ReqConnectOk)
    THEN Drop(conn[c].csent, Len(ReqConnectOk)) ELSE <<>>

\* C23. Relay fidelity: on an allowed tunnel the bytes delivered to the
\* remote are at every moment a prefix of the bytes the client sent after the
\* CONNECT request, and the bytes delivered to the client a prefix of the
\* bytes the remote sent.
C23_RelayFidelity ==
    \A c \in StreamConns :
        Has(conn[c].events, "200") =>
            /\ IsPrefix(conn[c].remoteIn, SentAfterConnect(c))
            /\ IsPrefix(conn[c].clientIn, conn[c].rsent)

\* the events that are no write of the proxy's own to the client: relayed
\* data, calls on other sockets, the queue, failures and closes
NotOriginated ==
    {"enqueue", "connect", "connect_failed", "data", "write_failed",
     "read_failed", "close", "close_error", "close_malformed"}

IsOriginated(e) == e \notin NotOriginated

\* what the proxy itself has written to a client
Originated(events) == SelectSeq(events, IsOriginated)

\* C24. The proxy originates nothing toward a client but one 403 (blocked
\* target) or one 200 (allowed CONNECT after a successful connect); a
\* connection closed for a failure (malformed or unparseable request, failed
\* connect, timeout, failed read or write) has been written no status
\* response at all, and is closed.
C24_OnlyOwn403And200 ==
    \A c \in Conns :
        LET own == Originated(conn[c].events)
        IN  /\ own \in {<<>>, <<"403_connect">>, <<"403_http">>, <<"200">>}
            /\ own \in {<<"403_connect">>, <<"403_http">>} =>
                  conn[c].decision = "BLOCKED"
            /\ own = <<"200">> =>
                  /\ conn[c].decision = "ALLOWED"
                  /\ conn[c].target.kind = "connect"
                  /\ Has(conn[c].events, "connect")
            /\ (\E e \in {"close_error", "close_malformed", "connect_failed",
                           "write_failed", "read_failed"} :
                    Has(conn[c].events, e)) =>
                  /\ own = <<>>
                  /\ conn[c].client = "closed"
                  /\ conn[c].pc = "closed"

\* a relay that had passed data on failed at a read and was closed
C24_Witness ==
    \E c \in Conns :
        /\ conn[c].events =
              <<"enqueue", "connect", "data", "read_failed", "close_error">>
        /\ conn[c].client = "closed"

\* C25. The block decision of a connection is taken once, against the list
\* that was current when its is_blocked call began: a decision, once taken,
\* and the list it was taken against never change; and a fetch changes no
\* state of any connection, so a tunnel or relay stays established when a
\* later list holds its host, and a 403 stays decided when a later list does
\* not.
C25_DecidedOnceAgainstSnapshot ==
    /\ [](\A c \in Conns :
            Decided(c) =>
                conn[c].decision =
                    IF is_blocked(conn[c].target.host, SnapshotOf(c))
                    THEN "BLOCKED" ELSE "ALLOWED")
    /\ [][\A c \in Conns :
            /\ Decided(c) =>
                  /\ conn'[c].decision = conn[c].decision
                  /\ conn'[c].it_ref = conn[c].it_ref
                  /\ conn'[c].target = conn[c].target
            /\ conn'[c].it_ref # conn[c].it_ref =>
                  /\ conn[c].it_ref = 0
                  /\ conn'[c].it_ref = blocked_sites]_vars
    /\ [][(fetches' # fetches \/ blocked_sites' # blocked_sites) =>
            conn' = conn]_vars

\* a relay was allowed under the list of its time and is still established
\* under a later list that blocks its host
C25_Witness ==
    \E c \in Conns :
        /\ conn[c].decision = "ALLOWED"
        /\ conn[c].pc = "relay"
        /\ conn[c].client = "open"
        /\ conn[c].remote = "connected"
        /\ conn[c].it_ref # blocked_sites
        /\ is_blocked(conn[c].target.host, lists[blocked_sites])

\* host is an entry of sites but for the case of its letters
DiffersByCaseOnly(host, sites) ==
    /\ host # Lower(host)
    /\ \E i \in 1..Len(sites) : sites[i] = Lower(host)
    /\ \A i \in 1..Len(sites) : sites[i] = Lower(sites[i])

\* C26. Matching is case-sensitive on the host as the client sent it: the
\* handler hands the host of the request to is_blocked as it is, and a host
\* that differs from an entry of the snapshot only by the case of its letters
\* (no entry being a substring of it) is classified ALLOWED, is sent no 403,
\* and the handler goes on to open the outbound connection.
C26_CaseSensitiveMatch ==
    \A c \in Conns :
        /\ conn[c].request = ReqConnectBetUpper =>
              conn[c].target.host = HostBetUpper
        /\ conn[c].request = ReqGetBetMixed =>
              conn[c].target.host = HostBetMixed
        /\ (/\ Decided(c)
            /\ DiffersByCaseOnly(conn[c].target.host, SnapshotOf(c))
            /\ \A i \in 1..Len(SnapshotOf(c)) :
                  ~IsSubstring(SnapshotOf(c)[i], conn[c].target.host)) =>
              /\ conn[c].decision = "ALLOWED"
              /\ ~Has(conn[c].events, "403_connect")
              /\ ~Has(conn[c].events, "403_http")
              /\ \/ conn[c].pc = "connect"
                 \/ Has(conn[c].events, "connect")
                 \/ Has(conn[c].events, "connect_failed")

\* the host BET was allowed under a snapshot that holds bet, and connected
C26_Witness ==
    \E c \in Conns :
        /\ conn[c].target.host = HostBetUpper
        /\ conn[c].decision = "ALLOWED"
        /\ Has(SnapshotOf(c), SiteBet)
        /\ conn[c].remote = "connected"
        /\ conn[c].events = <<"enqueue", "connect">>

====
